---- MODULE Spec2Model ----
(***************************************************************************)
(* State-machine model of the hsv-picker calibration tool:                 *)
(*   color_finder.py  ColorFinder (mouse callback crop_image, the range    *)
(*                    estimator get_hsv_range, the per-frame refresh)      *)
(*   contours.py      find_contours, get_largest_contour, draw_contour     *)
(* Images are sequences of rows of pixels (index i of Python is index i+1  *)
(* here); a pixel is a triple of 8-bit channels.                           *)
(***************************************************************************)
EXTENDS Integers, Sequences, FiniteSets, TLC

VARIABLES image, cache, hsv_image, hue_range, current_hsv_range,
          mouse_x, mouse_y, drawing, running, error, call

vars == <<image, cache, hsv_image, hue_range, current_hsv_range,
          mouse_x, mouse_y, drawing, running, error, call>>

uiVars == <<image, cache, hsv_image, hue_range, current_hsv_range,
            mouse_x, mouse_y, drawing, running, error>>

(***************************************************************************)
(* Bounds of the model.                                                    *)
(***************************************************************************)
ImgSize == 14
MaxContours == 2

\* Python's None where an image, or a contour, is expected.  No array the
\* program stores as hsv_image is empty, and list positions start at 1.
NoneImage == <<>>
NoneContour == [n |-> 0, area |-> 0]

Min2(a, b) == IF a < b THEN a ELSE b
Max2(a, b) == IF a > b THEN a ELSE b

(***************************************************************************)
(* Pixels of the loaded picture (blue, green, red).                        *)
(***************************************************************************)
Black   == <<0, 0, 0>>
Green   == <<0, 255, 0>>
Magenta == <<255, 0, 255>>
Azure   == <<255, 85, 0>>
Lilac   == <<255, 155, 205>>
Violet  == <<200, 0, 100>>
Yellow  == <<0, 255, 255>>

(***************************************************************************)
(* numpy arrays and slices.                                                *)
(***************************************************************************)
Height(img) == Len(img)
Width(img) == IF Len(img) = 0 THEN 0 ELSE Len(img[1])
IsEmpty(img) == Height(img) = 0 \/ Width(img) = 0

\* The index a slice bound denotes in a sequence of length n: a negative
\* bound counts from the end, and the result is clipped to 0..n.
PyIndex(n, i) == IF i < 0 THEN Max2(i + n, 0) ELSE Min2(i, n)

\* s[a:b]
PySlice(s, a, b) == SubSeq(s, PyIndex(Len(s), a) + 1, PyIndex(Len(s), b))

\* img[r0:r1, c0:c1]
Slice2D(img, r0, r1, c0, c1) ==
    LET rows == PySlice(img, r0, r1)
    IN  [i \in 1..Len(rows) |-> PySlice(rows[i], c0, c1)]

(***************************************************************************)
(* cv2.rectangle with thickness 2: the outline of the rectangle spanned by *)
(* the two corners is painted one pixel to either side of the ideal line,  *)
(* clipped to the image.                                                   *)
(***************************************************************************)
OnBorder(x, y, x1, y1, x2, y2) ==
    LET xa == Min2(x1, x2)
        xb == Max2(x1, x2)
        ya == Min2(y1, y2)
        yb == Max2(y1, y2)
    IN  /\ x >= xa - 1 /\ x <= xb + 1
        /\ y >= ya - 1 /\ y <= yb + 1
        /\ ~(x >= xa + 2 /\ x <= xb - 2 /\ y >= ya + 2 /\ y <= yb - 2)

rectangle(img, x1, y1, x2, y2, color) ==
    [r \in 1..Len(img) |->
        [c \in 1..Len(img[r]) |->
            IF OnBorder(c - 1, r - 1, x1, y1, x2, y2) THEN color
            ELSE img[r][c]]]

(***************************************************************************)
(* cv2.cvtColor(..., COLOR_BGR2HSV) on 8-bit pixels: fixed-point           *)
(* arithmetic with a 12-bit shift, hue in 0..179.                          *)
(***************************************************************************)
\* saturate_cast<int>(num / den): round to nearest
RoundDiv(num, den) == (2 * num + den) \div (2 * den)

sdiv_table(v) == IF v = 0 THEN 0 ELSE RoundDiv(255 * 4096, v)
hdiv_table180(d) == IF d = 0 THEN 0 ELSE RoundDiv(180 * 4096, 6 * d)

BGR2HSV(px) ==
    LET b == px[1]
        g == px[2]
        r == px[3]
        v == Max2(b, Max2(g, r))
        vmin == Min2(b, Min2(g, r))
        diff == v - vmin
        s == (diff * sdiv_table(v) + 2048) \div 4096
        h0 == IF v = r THEN g - b
              ELSE IF v = g THEN b - r + 2 * diff
              ELSE r - g + 4 * diff
        h1 == (h0 * hdiv_table180(diff) + 2048) \div 4096
        h == IF h1 < 0 THEN h1 + 180 ELSE h1
    IN  <<h, s, v>>

cvtColor(img) == [r \in 1..Len(img) |-> [c \in 1..Len(img[r]) |-> BGR2HSV(img[r][c])]]

(***************************************************************************)
(* contours.find_contours                                                  *)
(***************************************************************************)
\* The five assertions at the head of find_contours, as written.
RangeAsserts(hsv_lower, hsv_upper) ==
    /\ 0 <= hsv_lower[1] /\ hsv_lower[1] <= 179
    /\ 0 <= hsv_upper[1] /\ hsv_upper[1] <= 179
    /\ 0 <= hsv_lower[2] /\ hsv_lower[2] <= 255
    /\ 0 <= hsv_upper[2] /\ hsv_upper[2] <= 255
    /\ 0 <= hsv_lower[1] /\ hsv_lower[1] <= 255
    /\ 0 <= hsv_upper[1] /\ hsv_upper[1] <= 255
    /\ hsv_lower[2] <= hsv_upper[2]
    /\ hsv_lower[3] <= hsv_upper[3]

\* cv.inRange: a pixel is on iff every channel lies between the bounds.
inRange(hsv, lo, hi) ==
    [r \in 1..Len(hsv) |->
        [c \in 1..Len(hsv[r]) |->
            \A k \in 1..3 : lo[k] <= hsv[r][c][k] /\ hsv[r][c][k] <= hi[k]]]

bitwise_or(m1, m2) ==
    [r \in 1..Len(m1) |-> [c \in 1..Len(m1[r]) |-> m1[r][c] \/ m2[r][c]]]

\* BuildMask with the two partial masks intersected instead of united.
BuildMask_and(hsv, hsv_lower, hsv_upper) ==
    IF hsv_lower[1] <= hsv_upper[1]
    THEN inRange(hsv, hsv_lower, hsv_upper)
    ELSE LET mask1 == inRange(hsv, hsv_lower, <<255, hsv_upper[2], hsv_upper[3]>>)
             mask2 == inRange(hsv, <<0, hsv_lower[2], hsv_lower[3]>>, hsv_upper)
         IN  [r \in 1..Len(mask1) |->
                [c \in 1..Len(mask1[r]) |-> mask1[r][c] /\ mask2[r][c]]]

\* The mask find_contours builds from the converted image.
BuildMask(hsv, hsv_lower, hsv_upper) ==
    IF hsv_lower[1] <= hsv_upper[1]
    THEN inRange(hsv, hsv_lower, hsv_upper)
    ELSE LET mask1 == inRange(hsv, hsv_lower, <<255, hsv_upper[2], hsv_upper[3]>>)
             mask2 == inRange(hsv, <<0, hsv_lower[2], hsv_lower[3]>>, hsv_upper)
         IN  bitwise_or(mask1, mask2)

\* cv.findContours is an external primitive.  A contour is known here by
\* its position in the returned list and by its area (cv.contourArea).  A
\* mask with no pixel on has no contour; any other mask has at least one,
\* and no contour encloses more than the whole image.
Areas == {0, 29, 30}

AnyOn(mask) == \E r \in 1..Len(mask) : \E c \in 1..Len(mask[r]) : mask[r][c]

ContourLists(lens, areas) ==
    UNION {{[i \in 1..k |-> [n |-> i, area |-> f[i]]] : f \in [1..k -> areas]} : k \in lens}

findContours(mask) ==
    IF ~AnyOn(mask) THEN {<<>>}
    ELSE ContourLists(1..MaxContours,
                      {a \in Areas : a <= (Height(mask) - 1) * (Width(mask) - 1)})

\* The possible outcomes of find_contours(color_image, hsv_lower, hsv_upper).
find_contours(color_image, hsv_lower, hsv_upper) ==
    IF ~RangeAsserts(hsv_lower, hsv_upper)
    THEN {[err |-> "AssertionError", mask |-> <<>>, contours |-> <<>>]}
    ELSE IF IsEmpty(color_image)
    THEN {[err |-> "cv2.error", mask |-> <<>>, contours |-> <<>>]}
    ELSE LET mask == BuildMask(cvtColor(color_image), hsv_lower, hsv_upper)
         IN  {[err |-> "none", mask |-> mask, contours |-> cs] : cs \in findContours(mask)}

(***************************************************************************)
(* contours.get_largest_contour                                            *)
(***************************************************************************)
\* max(contours, key=cv.contourArea): the running maximum is replaced only
\* by a strictly larger element.
RECURSIVE MaxByArea(_, _, _)
MaxByArea(contours, i, best) ==
    IF i > Len(contours) THEN best
    ELSE MaxByArea(contours, i + 1,
                   IF contours[i].area > best.area THEN contours[i] ELSE best)

\* get_largest_contour rejecting a maximum equal to min_area.
get_largest_contour_le(contours, min_area) ==
    IF Len(contours) = 0 THEN NoneContour
    ELSE LET greatest_contour == MaxByArea(contours, 2, contours[1])
         IN  IF greatest_contour.area <= min_area THEN NoneContour
             ELSE greatest_contour

get_largest_contour(contours, min_area) ==
    IF Len(contours) = 0 THEN NoneContour
    ELSE LET greatest_contour == MaxByArea(contours, 2, contours[1])
         IN  IF greatest_contour.area < min_area THEN NoneContour
             ELSE greatest_contour

(***************************************************************************)
(* contours.draw_contour.  A drawing target is the pixel grid together     *)
(* with the contour overlaid on it (NoneContour while there is none).      *)
(***************************************************************************)
Canvas(pix) == [pix |-> pix, contour |-> NoneContour]

\* ColorAsserts looking at the first channel only.
ColorAsserts_first(color) == 0 <= color[1] /\ color[1] <= 255

ColorAsserts(color) == \A k \in 1..3 : 0 <= color[k] /\ color[k] <= 255

\* cv.drawContours(color_image, [contour], 0, color, 3).  Handing it the
\* list [None] either raises inside the library or draws nothing,
\* depending on the library build.
drawContours(color_image, contour, color) ==
    IF contour = NoneContour
    THEN {[err |-> "cv2.error", image |-> color_image],
          [err |-> "none", image |-> color_image]}
    ELSE {[err |-> "none", image |-> [color_image EXCEPT !.contour = contour]]}

\* The possible outcomes of draw_contour(color_image, contour, color).
draw_contour(color_image, contour, color) ==
    IF ~ColorAsserts(color)
    THEN {[err |-> "AssertionError", image |-> color_image]}
    ELSE drawContours(color_image, contour, color)

(***************************************************************************)
(* ColorFinder.get_hsv_range                                               *)
(***************************************************************************)
\* The pixels in the order the two nested loops visit them.
Flatten(img) ==
    [k \in 1..(Height(img) * Width(img)) |->
        img[((k - 1) \div Width(img)) + 1][((k - 1) % Width(img)) + 1]]

\* Qualifies with the upper end of the interval excluded.
Qualifies_open(row, hr) == row[1] >= hr[1] /\ row[1] < hr[2]

Qualifies(row, hr) == row[1] >= hr[1] /\ row[1] <= hr[2]

Channel(pixels, k) == [i \in 1..Len(pixels) |-> pixels[i][k]]

Sorted(s) == SortSeq(s, LAMBDA a, b : a < b)

\* get_hsv_range taking the lower saturation from the wrong end of the
\* sorted list.
get_hsv_range_swapped(hsv, hr) ==
    LET picked == SelectSeq(Flatten(hsv), LAMBDA row : Qualifies(row, hr))
        output_h == Sorted(Channel(picked, 1))
        output_s == Sorted(Channel(picked, 2))
        output_v == Sorted(Channel(picked, 3))
        n == Len(picked)
    IN  IF n < 1 THEN <<(<<0, 0, 0>>), (<<0, 0, 0>>)>>
        ELSE <<(<<output_h[1], output_s[n], output_v[1]>>),
               (<<output_h[n], output_s[1], output_v[n]>>)>>

get_hsv_range(hsv, hr) ==
    LET picked == SelectSeq(Flatten(hsv), LAMBDA row : Qualifies(row, hr))
        output_h == Sorted(Channel(picked, 1))
        output_s == Sorted(Channel(picked, 2))
        output_v == Sorted(Channel(picked, 3))
        n == Len(picked)
    IN  IF n < 1 THEN <<(<<0, 0, 0>>), (<<0, 0, 0>>)>>
        ELSE <<(<<output_h[1], output_s[1], output_v[1]>>),
               (<<output_h[n], output_s[n], output_v[n]>>)>>

(***************************************************************************)
(* The picture loaded at start-up and the mouse positions of the model.    *)
(***************************************************************************)
Last == ImgSize - 1

InitPixel(r, c) ==
    IF r = 3 /\ c = 3 THEN Black
    ELSE IF r < 3 \/ c < 3 \/ r > Last - 4 \/ c > Last - 4 THEN Green
    ELSE IF r = 3 THEN Lilac
    ELSE IF r <= 5 THEN Magenta
    ELSE IF r = 6 THEN Azure
    ELSE IF r = 7 THEN Lilac
    ELSE Violet

InitImage == [r \in 1..ImgSize |-> [c \in 1..ImgSize |-> InitPixel(r - 1, c - 1)]]

\* Mouse positions <<x, y>>: three corners and an inner point, enough for
\* drags in each of the four directions.
Points == {<<0, 0>>, <<Last, Last>>, <<Last, 0>>, <<6, 7>>}

\* Expected hue intervals given at start-up.
HueRanges == {<<110, 150>>, <<40, 80>>}

\* Positions reported by move events.
MovePoints == {<<6, 7>>}

Keys == {"q", "none"}

(***************************************************************************)
(* ColorFinder: state after construction.                                  *)
(***************************************************************************)
NoCall == [op |-> "none"]

Init ==
    /\ image = InitImage
    /\ cache = Canvas(InitImage)
    /\ hsv_image = NoneImage
    /\ hue_range \in HueRanges
    /\ current_hsv_range = <<>>
    /\ mouse_x = 0
    /\ mouse_y = 0
    /\ drawing = FALSE
    /\ running = TRUE
    /\ error = "none"
    /\ call = NoCall

(***************************************************************************)
(* ColorFinder.crop_image, one action per mouse event.  Events are         *)
(* dispatched while the frame loop waits for a key; presses and releases   *)
(* of the button alternate.                                                *)
(***************************************************************************)
LBUTTONDOWN(p) ==
    /\ running
    /\ ~drawing
    /\ drawing' = TRUE
    /\ mouse_x' = p[1]
    /\ mouse_y' = p[2]
    /\ UNCHANGED <<image, cache, hsv_image, hue_range, current_hsv_range,
                   running, error, call>>

\* MOUSEMOVE drawing the preview whether or not a drag is in progress.
MOUSEMOVE_always(p) ==
    /\ running
    /\ cache' = [cache EXCEPT !.pix = rectangle(cache.pix, mouse_x, mouse_y,
                                                p[1], p[2], Green)]
    /\ UNCHANGED <<image, hsv_image, hue_range, current_hsv_range,
                   mouse_x, mouse_y, drawing, running, error, call>>

MOUSEMOVE(p) ==
    /\ running
    /\ cache' = IF drawing
                THEN [cache EXCEPT !.pix = rectangle(cache.pix, mouse_x, mouse_y,
                                                     p[1], p[2], Green)]
                ELSE cache
    /\ UNCHANGED <<image, hsv_image, hue_range, current_hsv_range,
                   mouse_x, mouse_y, drawing, running, error, call>>

\* The slice taken by the release branch, of the image carrying the marker.
Cropped(img, mx, my, x, y) ==
    IF y < my
    THEN Slice2D(img, y + 3, my - 3, x + 3, mx - 3)
    ELSE Slice2D(img, my + 3, y - 3, mx + 3, x - 3)

\* cv2.cvtColor rejects an empty array; the error is raised inside the
\* mouse callback, where it is reported and dropped, so hsv_image keeps
\* its previous value.
LBUTTONUP(p) ==
    /\ running
    /\ drawing
    /\ drawing' = FALSE
    /\ LET marked == rectangle(image, mouse_x, mouse_y, p[1], p[2], Yellow)
           crop == Cropped(marked, mouse_x, mouse_y, p[1], p[2])
       IN  /\ image' = crop
           /\ hsv_image' = IF IsEmpty(crop) THEN hsv_image ELSE cvtColor(crop)
    /\ UNCHANGED <<cache, hue_range, current_hsv_range, mouse_x, mouse_y,
                   running, error, call>>

(***************************************************************************)
(* ColorFinder.refresh, one frame.  key is what waitKey returns.           *)
(***************************************************************************)
MinArea == 30

\* An uncaught error ends the frame loop.
Raise(e) == error' = e /\ running' = FALSE

refresh(key) ==
    /\ running
    /\ UNCHANGED <<image, hsv_image, hue_range, mouse_x, mouse_y, drawing, call>>
    /\ IF IsEmpty(cache.pix)
       THEN \* cv2.imshow rejects an empty array
            /\ Raise("cv2.error")
            /\ UNCHANGED <<cache, current_hsv_range>>
       ELSE IF hsv_image = NoneImage
       THEN /\ cache' = Canvas(image)
            /\ running' = (key # "q")
            /\ UNCHANGED <<current_hsv_range, error>>
       ELSE LET range == IF Len(current_hsv_range) < 1
                         THEN get_hsv_range(hsv_image, hue_range)
                         ELSE current_hsv_range
            IN  /\ current_hsv_range' = range
                /\ \E fc \in find_contours(image, range[1], range[2]) :
                     IF fc.err # "none"
                     THEN cache' = Canvas(image) /\ Raise(fc.err)
                     ELSE LET lg_contour == get_largest_contour(fc.contours, MinArea)
                          IN  \E dc \in draw_contour(Canvas(image), lg_contour, Green) :
                                /\ cache' = dc.image
                                /\ IF dc.err # "none"
                                   THEN Raise(dc.err)
                                   ELSE running' = (key # "q") /\ UNCHANGED error

Next ==
    \/ \E p \in Points : LBUTTONDOWN(p)
    \/ \E p \in MovePoints : MOUSEMOVE(p)
    \/ \E p \in Points : LBUTTONUP(p)
    \/ \E key \in Keys : refresh(key)

Spec == Init /\ [][Next]_vars

(***************************************************************************)
(* Direct calls of the functions of contours.py, with arguments drawn from *)
(* bounded sets; call records the arguments and the outcome of the one    *)
(* call a run makes.                                                       *)
(***************************************************************************)
\* A one-row picture whose pixels convert to the hues 169, 170, 175, 179,
\* 5, 10, 11 and 90 (saturation 255, value 240 or 255) and to hue 0 with
\* saturation 49 and 50 and with value 49 and 50.
LibImage ==
    << << <<88, 0, 240>>, <<80, 0, 240>>, <<40, 0, 240>>, <<8, 0, 240>>,
          <<0, 40, 240>>, <<0, 80, 240>>, <<0, 88, 240>>, <<255, 255, 0>>,
          <<206, 206, 255>>, <<205, 205, 255>>, <<0, 0, 49>>, <<0, 0, 50>> >> >>

HueVals == {-1, 10, 170, 180}
SatVals == {-1, 50, 255, 256}
ValVals == {-1, 50, 255, 256}
HsvBounds == {<<h, s, v>> : h \in HueVals, s \in SatVals, v \in ValVals}

ColorVals == {-1, 0, 255, 256}
Colors == {<<b, g, r>> : b \in ColorVals, g \in ColorVals, r \in ColorVals}

MinAreas == {29, 30, 31}

LibInit ==
    /\ image = LibImage
    /\ cache = Canvas(LibImage)
    /\ hsv_image = NoneImage
    /\ hue_range = <<110, 150>>
    /\ current_hsv_range = <<>>
    /\ mouse_x = 0
    /\ mouse_y = 0
    /\ drawing = FALSE
    /\ running = TRUE
    /\ error = "none"
    /\ call = NoCall

CallFindContours(hsv_lower, hsv_upper) ==
    /\ call = NoCall
    /\ \E out \in find_contours(LibImage, hsv_lower, hsv_upper) :
         call' = [op |-> "find_contours", image_before |-> LibImage,
                  image |-> LibImage, hsv_lower |-> hsv_lower,
                  hsv_upper |-> hsv_upper, err |-> out.err,
                  mask |-> out.mask, contours |-> out.contours]
    /\ UNCHANGED uiVars

CallGetLargestContour(contours, min_area) ==
    /\ call = NoCall
    /\ call' = [op |-> "get_largest_contour", contours |-> contours,
                min_area |-> min_area,
                result |-> get_largest_contour(contours, min_area)]
    /\ UNCHANGED uiVars

CallDrawContour(contour, color) ==
    /\ call = NoCall
    /\ \E out \in draw_contour(Canvas(LibImage), contour, color) :
         call' = [op |-> "draw_contour", image_before |-> Canvas(LibImage),
                  image |-> out.image, contour |-> contour, color |-> color,
                  err |-> out.err]
    /\ UNCHANGED uiVars

LibNext ==
    \/ \E lo \in HsvBounds, hi \in HsvBounds : CallFindContours(lo, hi)
    \/ \E cs \in ContourLists(0..MaxContours, Areas), m \in MinAreas :
         CallGetLargestContour(cs, m)
    \/ \E c \in {NoneContour, [n |-> 1, area |-> 30]}, color \in Colors :
         CallDrawContour(c, color)

LibSpec == LibInit /\ [][LibNext]_vars

(***************************************************************************)
(* Properties.                                                             *)
(***************************************************************************)
InDomain(b) ==
    /\ 0 <= b[1] /\ b[1] <= 179
    /\ 0 <= b[2] /\ b[2] <= 255
    /\ 0 <= b[3] /\ b[3] <= 255

\* A pair of bounds that meets every documented precondition.
ValidBounds(lo, hi) ==
    InDomain(lo) /\ InDomain(hi) /\ lo[2] <= hi[2] /\ lo[3] <= hi[3]

\* C1: find_contours fails with an invalid-range error, and leaves the
\* image as it was, for every pair of bounds with a hue outside [0,179], a
\* saturation or value outside [0,255], lower saturation > upper
\* saturation or lower value > upper value.
C1_InvalidRangeRejected ==
    (call.op = "find_contours" /\ ~ValidBounds(call.hsv_lower, call.hsv_upper))
        => /\ call.err = "AssertionError"
           /\ call.mask = <<>>
           /\ call.contours = <<>>
           /\ call.image = call.image_before

\* The crop the claim describes: rows lo..hi-1 and columns lo..hi-1 between
\* the ordered corners, each side moved in by 3.
RowsCols(img, r0, r1, c0, c1) ==
    LET rs == {r \in 0..(Height(img) - 1) : r0 <= r /\ r < r1}
        cs == {c \in 0..(Width(img) - 1) : c0 <= c /\ c < c1}
    IN  [i \in 1..Cardinality(rs) |->
            [j \in 1..Cardinality(cs) |-> img[r0 + i][c0 + j]]]

NormalizedCrop(img, mx, my, x, y) ==
    RowsCols(img, Min2(y, my) + 3, Max2(y, my) - 3,
                  Min2(x, mx) + 3, Max2(x, mx) - 3)

Abs(n) == IF n < 0 THEN -n ELSE n

\* C2: a release at (x, y) after a press at (mx, my), in any of the four
\* drag directions, replaces the source image by the crop from min+3 to
\* max-3 in rows and columns, which is non-empty when the rectangle is
\* more than 6 pixels wide and high.
C2_CropNormalized ==
    [][\A p \in Points :
         (LBUTTONUP(p) /\ p[1] # mouse_x /\ p[2] # mouse_y)
            => /\ image' = NormalizedCrop(
                              rectangle(image, mouse_x, mouse_y, p[1], p[2], Yellow),
                              mouse_x, mouse_y, p[1], p[2])
               /\ (/\ Abs(p[1] - mouse_x) > 6
                   /\ Abs(p[2] - mouse_y) > 6
                   /\ Max2(p[1], mouse_x) < Width(image)
                   /\ Max2(p[2], mouse_y) < Height(image))
                      => ~IsEmpty(image')]_vars

ZeroRange == <<(<<0, 0, 0>>), (<<0, 0, 0>>)>>

\* C4: after an estimation that ended with no data (the all-zero range), a
\* new selection clears the cached range, so that the next frame
\* estimates again.
C4_SelectionClearsNoData ==
    [][(/\ current_hsv_range = ZeroRange
        /\ drawing /\ ~drawing'
        /\ ~IsEmpty(image'))
          => current_hsv_range' = <<>>]_vars

\* Membership of one HSV pixel in a hue band with saturation and value
\* limits.
InBand(px, hlo, hhi, lo, hi) ==
    /\ hlo <= px[1] /\ px[1] <= hhi
    /\ lo[2] <= px[2] /\ px[2] <= hi[2]
    /\ lo[3] <= px[3] /\ px[3] <= hi[3]

\* C5: for valid bounds with lower hue > upper hue, a pixel is in the mask
\* iff (hue >= lower hue or hue <= upper hue) and saturation and value are
\* in range; the mask is the union of the masks of the bands
\* [lower hue, 179] and [0, upper hue].
C5_WrapMask ==
    (/\ call.op = "find_contours"
     /\ ValidBounds(call.hsv_lower, call.hsv_upper)
     /\ call.hsv_lower[1] > call.hsv_upper[1])
        => LET lo == call.hsv_lower
               hi == call.hsv_upper
               hsv == cvtColor(call.image_before)
           IN  /\ call.err = "none"
               /\ \A r \in 1..Len(hsv) : \A c \in 1..Len(hsv[r]) :
                    LET px == hsv[r][c]
                    IN  /\ px[1] \in 0..179
                        /\ call.mask[r][c] <=>
                             (/\ (px[1] >= lo[1] \/ px[1] <= hi[1])
                              /\ lo[2] <= px[2] /\ px[2] <= hi[2]
                              /\ lo[3] <= px[3] /\ px[3] <= hi[3])
                        /\ call.mask[r][c] <=>
                             (\/ InBand(px, lo[1], 179, lo, hi)
                              \/ InBand(px, 0, hi[1], lo, hi))

\* A wrap-case call whose mask holds a pixel of either band and leaves out
\* a pixel between the bands.
C5_Witness ==
    /\ call.op = "find_contours"
    /\ call.hsv_lower = <<170, 50, 50>>
    /\ call.hsv_upper = <<10, 255, 255>>
    /\ call.err = "none"
    /\ call.mask[1][3] /\ call.mask[1][5] /\ ~call.mask[1][8]
    /\ call.mask[1][2] /\ ~call.mask[1][1] /\ call.mask[1][6] /\ ~call.mask[1][7]

MaxArea(contours) ==
    CHOOSE a \in {contours[i].area : i \in 1..Len(contours)} :
        \A i \in 1..Len(contours) : contours[i].area <= a

QualifyingPixels(hsv, hr) ==
    {px \in {hsv[r][c] : r \in 1..Height(hsv), c \in 1..Width(hsv)} :
        hr[1] <= px[1] /\ px[1] <= hr[2]}

SetMin(S) == CHOOSE m \in S : \A n \in S : m <= n
SetMax(S) == CHOOSE m \in S : \A n \in S : n <= m

\* Per-channel minima and maxima over the qualifying pixels.
BoundingBox(hsv, hr) ==
    LET Q == QualifyingPixels(hsv, hr)
        Ch(k) == {px[k] : px \in Q}
    IN  IF Q = {} THEN ZeroRange
        ELSE <<(<<SetMin(Ch(1)), SetMin(Ch(2)), SetMin(Ch(3))>>),
               (<<SetMax(Ch(1)), SetMax(Ch(2)), SetMax(Ch(3))>>)>>

\* C7: the range estimated from an HSV image and a hue interval is the
\* per-channel minimum and maximum over exactly the pixels whose hue lies
\* in the interval (ends included), and the all-zero range, without an
\* error, when no pixel qualifies.
C7_RangeIsBoundingBox ==
    [][(Len(current_hsv_range) < 1 /\ Len(current_hsv_range') >= 1)
          => /\ current_hsv_range' = BoundingBox(hsv_image, hue_range)
             /\ error' # "AssertionError"]_vars

\* An estimate over pixels whose hues reach both ends of the interval and
\* whose lower and upper corners are no observed pixel.
C7_Witness ==
    /\ hue_range = <<110, 150>>
    /\ current_hsv_range = <<(<<110, 100, 200>>), (<<150, 255, 255>>)>>

\* C8: draw_contour fails with an invalid-color error for every color with
\* a channel outside [0,255], in any position, and leaves the image as it
\* was.
C8_InvalidColorRejected ==
    (/\ call.op = "draw_contour"
     /\ \E k \in 1..3 : call.color[k] < 0 \/ call.color[k] > 255)
        => call.err = "AssertionError" /\ call.image = call.image_before

\* A rejected color whose only bad channel is the last one, with a contour
\* that would otherwise have been drawn.
C8_Witness ==
    /\ call.op = "draw_contour"
    /\ call.color = <<0, 255, 256>>
    /\ call.contour # NoneContour
    /\ call.err = "AssertionError"

\* C9: a move event changes nothing but the display copy, and the display
\* copy only while a drag is in progress; a press event changes nothing
\* but the drag flag and the stored press point.
C9_MoveAndPressEffects ==
    [][/\ \A p \in MovePoints :
            MOUSEMOVE(p)
               => /\ UNCHANGED <<image, hsv_image, hue_range, current_hsv_range,
                                 mouse_x, mouse_y, drawing, running, error>>
                  /\ ~drawing => UNCHANGED cache
       /\ \A p \in Points :
            LBUTTONDOWN(p)
               => UNCHANGED <<image, cache, hsv_image, hue_range,
                              current_hsv_range, running, error>>]_vars

\* A preview rectangle is on the display copy while a drag is in progress.
C9_Witness ==
    /\ drawing
    /\ cache.pix # image
    /\ \E r \in 1..Height(image) : \E c \in 1..Width(image) :
         cache.pix[r][c] = Green /\ image[r][c] # Green

\* C10: the current range is empty or a pair of bounds that passes every
\* precondition of find_contours, so the call made by refresh never fails
\* them.
C10_RangeAlwaysValid ==
    /\ current_hsv_range = <<>> \/
         (/\ Len(current_hsv_range) = 2
          /\ ValidBounds(current_hsv_range[1], current_hsv_range[2])
          /\ RangeAsserts(current_hsv_range[1], current_hsv_range[2]))
    /\ error # "AssertionError"

\* An estimated range with distinct lower and upper saturation and value
\* is in use after a second selection.
C10_Witness ==
    /\ Len(current_hsv_range) = 2
    /\ current_hsv_range[1][2] < current_hsv_range[2][2]
    /\ current_hsv_range[1][3] < current_hsv_range[2][3]
    /\ Height(image) < 7
    /\ ~IsEmpty(image)
    /\ cache.contour = NoneContour
    /\ ~drawing

====
